---- MODULE Spec2Model ----
(***************************************************************************)
(* Model of the transcript scoring service of Nirman-AI (backend/).       *)
(*                                                                         *)
(* Text is a sequence of one-character strings, so that strip, split,      *)
(* lower and the regular-expression passes are computed character by       *)
(* character.  Real numbers (Python floats) are exact rationals            *)
(* [num, den] with den > 0; round(x, 1) yields an integer number of        *)
(* tenths.                                                                 *)
(***************************************************************************)
EXTENDS Integers, Sequences, FiniteSets, TLC

VARIABLES
    rubricFile,   \* what os.path.exists / pd.read_excel find for RUBRIC_FILE
    embedModel,   \* which embedding model the process has loaded
    req,          \* the requests in flight: transcript, position, locals, response
    lab           \* inputs and result of a direct call of a pure helper

vars == <<rubricFile, embedModel, req, lab>>

(***************************************************************************)
(* Characters and strings                                                  *)
(***************************************************************************)
UpperSeq ==
    <<"A","B","C","D","E","F","G","H","I","J","K","L","M",
      "N","O","P","Q","R","S","T","U","V","W","X","Y","Z">>

LowerSeq ==
    <<"a","b","c","d","e","f","g","h","i","j","k","l","m",
      "n","o","p","q","r","s","t","u","v","w","x","y","z">>

DigitSeq == <<"0","1","2","3","4","5","6","7","8","9">>

Range(s) == {s[i] : i \in DOMAIN s}

\* the sequence f as an explicit tuple (the same value, evaluated once)
Tup(f) == f \o <<>>

UpperChars == Range(UpperSeq)
SpaceChars == {" ", "\t", "\n"}
WordChars == Range(UpperSeq) \cup Range(LowerSeq) \cup Range(DigitSeq) \cup {"_"}

\* str.isspace for the characters of the model
IsSpace(c) == c \in SpaceChars

\* the regular expression class \w: letters, digits and the underscore
IsWordChar(c) == c \in WordChars

LowerChar(c) ==
    IF c \in UpperChars
    THEN LowerSeq[CHOOSE i \in DOMAIN UpperSeq : UpperSeq[i] = c]
    ELSE c

\* str.lower()
lower(s) == Tup([i \in DOMAIN s |-> LowerChar(s[i])])

Indices(s) == Tup([i \in DOMAIN s |-> i])

\* str.strip(): drop leading and trailing whitespace
strip(s) ==
    LET IsSolid(i) == ~IsSpace(s[i])
        solid == SelectSeq(Indices(s), IsSolid)
    IN  IF solid = <<>> THEN <<>>
        ELSE SubSeq(s, solid[1], solid[Len(solid)])

\* str.split(): the maximal runs of non-whitespace characters, in order
split(s) ==
    LET IsStart(i) == ~IsSpace(s[i]) /\ (i = 1 \/ IsSpace(s[i - 1]))
        IsEnd(i)   == ~IsSpace(s[i]) /\ (i = Len(s) \/ IsSpace(s[i + 1]))
        starts == SelectSeq(Indices(s), IsStart)
        ends   == SelectSeq(Indices(s), IsEnd)
    IN  Tup([k \in DOMAIN starts |-> SubSeq(s, starts[k], ends[k])])

\* str.split(","): the pieces between commas, empty pieces included
split_comma(s) ==
    LET IsComma(i) == s[i] = ","
        commas == SelectSeq(Indices(s), IsComma)
        from(k) == IF k = 1 THEN 1 ELSE commas[k - 1] + 1
        to(k)   == IF k = Len(commas) + 1 THEN Len(s) ELSE commas[k] - 1
    IN  Tup([k \in 1..(Len(commas) + 1) |-> SubSeq(s, from(k), to(k))])

\* re.sub(r'[^\w\s]', ' ', text)
sub_punct(s) ==
    Tup([i \in DOMAIN s |-> IF IsWordChar(s[i]) \/ IsSpace(s[i]) THEN s[i] ELSE " "])

\* re.sub(r'\s+', ' ', text): every run of whitespace becomes one space
sub_spaces(s) ==
    LET FirstOfRun(i) == ~IsSpace(s[i]) \/ i = 1 \/ ~IsSpace(s[i - 1])
        kept == SelectSeq(Indices(s), FirstOfRun)
    IN  Tup([k \in DOMAIN kept |-> IF IsSpace(s[kept[k]]) THEN " " ELSE s[kept[k]]])

\* a slip of preprocess_text: the text is trimmed before the punctuation is
\* replaced
preprocess_text_TrimFirst(text) == sub_spaces(sub_punct(strip(lower(text))))

preprocess_text(text) == strip(sub_spaces(sub_punct(lower(text))))

count_words(text) == Len(split(text))

\* Python's `needle in haystack` for strings
Contains(haystack, needle) ==
    \E i \in 1..(Len(haystack) - Len(needle) + 1) :
        \A j \in DOMAIN needle : haystack[i + j - 1] = needle[j]

(***************************************************************************)
(* Numbers: exact rationals for Python floats                              *)
(***************************************************************************)
Rat(n, d) == [num |-> n, den |-> d]

RECURSIVE Gcd(_, _)
Gcd(a, b) == IF b = 0 THEN a ELSE Gcd(b, a % b)

Abs(n) == IF n < 0 THEN -n ELSE n

\* the same number in lowest terms
Norm(x) ==
    LET g == Gcd(Abs(x.num), x.den)
    IN  IF g = 0 THEN Rat(0, 1) ELSE Rat(x.num \div g, x.den \div g)

RInt(n) == Rat(n, 1)
RAdd(x, y) == Norm(Rat(x.num * y.den + y.num * x.den, x.den * y.den))
RSub(x, y) == Norm(Rat(x.num * y.den - y.num * x.den, x.den * y.den))
RMul(x, y) == Norm(Rat(x.num * y.num, x.den * y.den))
RLe(x, y) == x.num * y.den <= y.num * x.den
RLt(x, y) == x.num * y.den < y.num * x.den
REq(x, y) == x.num * y.den = y.num * x.den
RMin(x, y) == IF RLe(x, y) THEN x ELSE y
RMax(x, y) == IF RLe(x, y) THEN y ELSE x

\* the integer nearest to n/d (d > 0), a tie going to the even neighbour
RoundHalfEven(n, d) ==
    LET q == n \div d
        r == n - q * d
    IN  IF 2 * r < d THEN q
        ELSE IF 2 * r > d THEN q + 1
        ELSE IF q % 2 = 0 THEN q ELSE q + 1

\* round(x, 1), as a rational with an integer number of tenths
round1(x) == Norm(Rat(RoundHalfEven(10 * x.num, x.den), 10))

(***************************************************************************)
(* fuzz.ratio of fuzzywuzzy: 100 * 2 * M / T rounded to an integer, M the  *)
(* matched characters (longest common subsequence, as python-Levenshtein   *)
(* computes it) and T the total length                                     *)
(***************************************************************************)
Max2(a, b) == IF a >= b THEN a ELSE b

\* one row of the longest-common-subsequence table: row[j + 1] is the LCS
\* length of the prefix of a ending at the row's character and b[1..j]
RECURSIVE LcsRow(_, _, _, _)
LcsRow(prev, c, b, acc) ==
    LET j == Len(acc)
    IN  IF j > Len(b) THEN acc
        ELSE LcsRow(prev, c, b,
                    Append(acc, IF b[j] = c THEN prev[j] + 1
                                ELSE Max2(prev[j + 1], acc[j])))

RECURSIVE LcsRows(_, _, _, _)
LcsRows(a, b, i, prev) ==
    IF i > Len(a) THEN prev[Len(b) + 1]
    ELSE LET row == LcsRow(prev, a[i], b, <<0>>)
         IN  IF Len(row) = Len(b) + 1 THEN LcsRows(a, b, i + 1, row) ELSE 0

Lcs(a, b) == LcsRows(a, b, 1, Tup([j \in 1..(Len(b) + 1) |-> 0]))

fuzz_ratio(s1, s2) ==
    IF s1 = s2 THEN 100
    ELSE IF Len(s1) = 0 \/ Len(s2) = 0 THEN 0
    ELSE RoundHalfEven(100 * 2 * Lcs(s1, s2), Len(s1) + Len(s2))

(***************************************************************************)
(* utils/scoring.py: the scoring helpers                                   *)
(***************************************************************************)
DefaultFuzzyThreshold == 85

\* a slip of check_keywords: the lowercased keyword is reported as found
RECURSIVE KeywordLoop_Lowered(_, _, _, _, _, _, _)
KeywordLoop_Lowered(transcript_lower, words, keywords, fuzzy_threshold, i, found, missing) ==
    IF i > Len(keywords) THEN [found |-> found, missing |-> missing]
    ELSE
        LET keyword == keywords[i]
            keyword_lower == lower(keyword)
            fuzzy_matched ==
                \E word \in words :
                    fuzz_ratio(keyword_lower, word) >= fuzzy_threshold
        IN  IF Contains(transcript_lower, keyword_lower) \/ fuzzy_matched
            THEN KeywordLoop_Lowered(transcript_lower, words, keywords, fuzzy_threshold,
                                     i + 1, Append(found, keyword_lower), missing)
            ELSE KeywordLoop_Lowered(transcript_lower, words, keywords, fuzzy_threshold,
                                     i + 1, found, Append(missing, keyword))

\* the for loop of check_keywords over keywords[i..], found and missing so
\* far; words is transcript_lower.split(), the same in every turn
RECURSIVE KeywordLoop(_, _, _, _, _, _, _)
KeywordLoop(transcript_lower, words, keywords, fuzzy_threshold, i, found, missing) ==
    IF i > Len(keywords) THEN [found |-> found, missing |-> missing]
    ELSE
        LET keyword == keywords[i]
            keyword_lower == lower(keyword)
            \* any(...) over the list: some word of it matches
            fuzzy_matched ==
                \E word \in words :
                    fuzz_ratio(keyword_lower, word) >= fuzzy_threshold
        IN  IF Contains(transcript_lower, keyword_lower) \/ fuzzy_matched
            THEN KeywordLoop(transcript_lower, words, keywords, fuzzy_threshold,
                             i + 1, Append(found, keyword), missing)
            ELSE KeywordLoop(transcript_lower, words, keywords, fuzzy_threshold,
                             i + 1, found, Append(missing, keyword))

check_keywords(transcript, keywords, fuzzy_threshold) ==
    LET transcript_lower == preprocess_text(transcript)
        words == Range(split(transcript_lower))
        loop == KeywordLoop(transcript_lower, words, keywords,
                            fuzzy_threshold, 1, <<>>, <<>>)
    IN  [found |-> loop.found,
         missing |-> loop.missing,
         keyword_score |->
             IF Len(keywords) > 0
             THEN RMul(Rat(Len(loop.found), Len(keywords)), RInt(100))
             ELSE RInt(0)]

Feedback(kind, count, limit) == [kind |-> kind, count |-> count, limit |-> limit]

\* a slip of calculate_word_count_score: the penalty is neither capped nor
\* the score floored at 50
calculate_word_count_score_NoFloor(word_count, min_words, max_words) ==
    IF word_count < min_words
    THEN [score |-> RMul(Rat(word_count, min_words), RInt(100)),
          feedback |-> Feedback("shorter than recommended", word_count, min_words)]
    ELSE IF word_count > max_words
    THEN [score |-> RSub(RInt(100), RMul(Rat(word_count - max_words, 100), RInt(20))),
          feedback |-> Feedback("exceeds recommended length", word_count, max_words)]
    ELSE [score |-> RInt(100),
          feedback |-> Feedback("good length", 0, 0)]

calculate_word_count_score(word_count, min_words, max_words) ==
    IF word_count < min_words
    THEN [score |-> RMul(Rat(word_count, min_words), RInt(100)),
          feedback |-> Feedback("shorter than recommended", word_count, min_words)]
    ELSE IF word_count > max_words
    THEN LET excess == word_count - max_words
             penalty == RMin(RInt(50), RMul(Rat(excess, 100), RInt(20)))
         IN  [score |-> RMax(RInt(50), RSub(RInt(100), penalty)),
              feedback |-> Feedback("exceeds recommended length", word_count, max_words)]
    ELSE [score |-> RInt(100),
          feedback |-> Feedback("good length", 0, 0)]

(***************************************************************************)
(* Rubric data.  A spreadsheet cell, and a criterion's name or description *)
(* (which load_rubric copies unconverted), is a string, a number or NaN    *)
(* (an empty cell).                                                        *)
(***************************************************************************)
Str(s) == [t |-> "str", s |-> s, x |-> Rat(0, 1)]
Num(x) == [t |-> "num", s |-> <<>>, x |-> x]
NaN    == [t |-> "nan", s |-> <<>>, x |-> Rat(0, 1)]

DefaultMinWords == 50
DefaultMaxWords == 500

\* the default rubric of load_rubric
DefaultRubric ==
    <<
     [name |-> Str(<<"C","l","a","r","i","t","y"," ","a","n","d"," ","A","r","t","i","c","u",
            "l","a","t","i","o","n">>),
      description |-> Str(<<"C","l","e","a","r"," ","p","r","o","n","u","n","c","i","a","t","i","o",
            "n"," ","a","n","d"," ","w","e","l","l","-","s","t","r","u","c","t","u",
            "r","e","d"," ","s","e","n","t","e","n","c","e","s">>),
      keywords |-> <<<<"c","l","e","a","r">>,
                     <<"a","r","t","i","c","u","l","a","t","e">>,
                     <<"p","r","e","c","i","s","e">>,
                     <<"u","n","d","e","r","s","t","a","n","d","a","b","l","e">>,
                     <<"c","o","h","e","r","e","n","t">>,
                     <<"s","t","r","u","c","t","u","r","e","d">>,
                     <<"o","r","g","a","n","i","z","e","d">>,
                     <<"l","o","g","i","c","a","l">>>>,
      weight |-> Rat(25, 100), min_words |-> 50, max_words |-> 500],
     [name |-> Str(<<"C","o","n","t","e","n","t"," ","Q","u","a","l","i","t","y">>),
      description |-> Str(<<"R","e","l","e","v","a","n","t",","," ","i","n","f","o","r","m","a","t",
            "i","v","e",","," ","a","n","d"," ","w","e","l","l","-","o","r","g","a",
            "n","i","z","e","d"," ","c","o","n","t","e","n","t">>),
      keywords |-> <<<<"r","e","l","e","v","a","n","t">>,
                     <<"i","n","f","o","r","m","a","t","i","v","e">>,
                     <<"d","e","t","a","i","l","e","d">>,
                     <<"o","r","g","a","n","i","z","e","d">>,
                     <<"e","v","i","d","e","n","c","e">>,
                     <<"e","x","a","m","p","l","e","s">>,
                     <<"f","a","c","t","s">>,
                     <<"d","a","t","a">>,
                     <<"a","n","a","l","y","s","i","s">>>>,
      weight |-> Rat(30, 100), min_words |-> 50, max_words |-> 500],
     [name |-> Str(<<"E","n","g","a","g","e","m","e","n","t">>),
      description |-> Str(<<"A","b","i","l","i","t","y"," ","t","o"," ","m","a","i","n","t","a","i",
            "n"," ","a","u","d","i","e","n","c","e"," ","i","n","t","e","r","e","s",
            "t"," ","a","n","d"," ","c","o","n","n","e","c","t">>),
      keywords |-> <<<<"e","n","g","a","g","i","n","g">>,
                     <<"i","n","t","e","r","e","s","t","i","n","g">>,
                     <<"c","o","m","p","e","l","l","i","n","g">>,
                     <<"a","t","t","e","n","t","i","o","n">>,
                     <<"e","n","t","h","u","s","i","a","s","m">>,
                     <<"d","y","n","a","m","i","c">>,
                     <<"p","a","s","s","i","o","n","a","t","e">>,
                     <<"c","a","p","t","i","v","a","t","i","n","g">>>>,
      weight |-> Rat(20, 100), min_words |-> 50, max_words |-> 500],
     [name |-> Str(<<"L","a","n","g","u","a","g","e"," ","P","r","o","f","i","c","i","e","n",
            "c","y">>),
      description |-> Str(<<"P","r","o","p","e","r"," ","g","r","a","m","m","a","r",","," ","v","o",
            "c","a","b","u","l","a","r","y",","," ","a","n","d"," ","l","a","n","g",
            "u","a","g","e"," ","u","s","e">>),
      keywords |-> <<<<"v","o","c","a","b","u","l","a","r","y">>,
                     <<"g","r","a","m","m","a","r">>,
                     <<"l","a","n","g","u","a","g","e">>,
                     <<"p","r","o","f","e","s","s","i","o","n","a","l">>,
                     <<"a","p","p","r","o","p","r","i","a","t","e">>,
                     <<"f","l","u","e","n","t">>,
                     <<"e","l","o","q","u","e","n","t">>,
                     <<"a","r","t","i","c","u","l","a","t","e">>>>,
      weight |-> Rat(25, 100), min_words |-> 50, max_words |-> 500]
    >>

\* the value of a string of decimal digits
RECURSIVE DigitsValue(_, _)
DigitsValue(s, acc) ==
    IF s = <<>> THEN acc
    ELSE DigitsValue(Tail(s),
                     10 * acc + ((CHOOSE i \in DOMAIN DigitSeq : DigitSeq[i] = s[1]) - 1))

DigitChars == Range(DigitSeq)

IsDigits(s) == s # <<>> /\ \A i \in DOMAIN s : s[i] \in DigitChars

\* float(cell): a number converts, a string converts when it is a numeral,
\* anything else raises (NaN weights are outside the inputs of the model)
float_of(cell) ==
    IF cell.t = "num" THEN [ok |-> TRUE, x |-> cell.x]
    ELSE IF cell.t = "str" /\ IsDigits(strip(cell.s))
    THEN [ok |-> TRUE, x |-> RInt(DigitsValue(strip(cell.s), 0))]
    ELSE [ok |-> FALSE, x |-> RInt(0)]

\* int(cell) if not pd.isna(cell) else default
int_or_default(cell, default) ==
    IF cell.t = "nan" THEN [ok |-> TRUE, n |-> default]
    ELSE IF cell.t = "num" THEN [ok |-> TRUE, n |-> cell.x.num \div cell.x.den]
    ELSE IF IsDigits(strip(cell.s)) THEN [ok |-> TRUE, n |-> DigitsValue(strip(cell.s), 0)]
    ELSE [ok |-> FALSE, n |-> 0]

\* the dictionary load_rubric appends for one row of the sheet
row_to_criterion(row) ==
    LET weight == float_of(row.weight)
        min_words == int_or_default(row.min_words, DefaultMinWords)
        max_words == int_or_default(row.max_words, DefaultMaxWords)
    IN  [ok |-> weight.ok /\ min_words.ok /\ max_words.ok,
         criterion |->
            [name |-> row.name,
             description |-> row.description,
             keywords |-> IF row.keywords.t = "str"
                          THEN split_comma(row.keywords.s) ELSE <<>>,
             weight |-> weight.x,
             min_words |-> min_words.n,
             max_words |-> max_words.n]]

NoFile == [exists |-> FALSE, rows |-> <<>>]
ExcelFile(rows) == [exists |-> TRUE, rows |-> rows]

\* a slip of load_rubric: a row that does not convert is kept (weight 0.0)
\* and the sheet is returned, not the default rubric
load_rubric_file_NoFallback(file) ==
    IF file.exists
    THEN Tup([i \in DOMAIN file.rows |-> row_to_criterion(file.rows[i]).criterion])
    ELSE DefaultRubric

\* utils/scoring.py load_rubric: the sheet when it exists and every row
\* converts, the default rubric otherwise
load_rubric_file(file) ==
    IF file.exists /\ \A i \in DOMAIN file.rows : row_to_criterion(file.rows[i]).ok
    THEN Tup([i \in DOMAIN file.rows |-> row_to_criterion(file.rows[i]).criterion])
    ELSE DefaultRubric

\* backend_api.py load_rubric returns the default rubric always
load_rubric(impl, file) ==
    IF impl = "modular" THEN load_rubric_file(file) ELSE DefaultRubric

(***************************************************************************)
(* The embedding model and the semantic similarity                         *)
(***************************************************************************)
\* model.encode either raises or returns a vector
Raised == [ok |-> FALSE, vec |-> <<0, 0>>]
Vec(x, y) == [ok |-> TRUE, vec |-> <<x, y>>]

\* the vectors of the model have integer length, so the cosine is rational
IntSqrt(n) == CHOOSE k \in 0..n : k * k = n
VecLen(v) == IntSqrt(v[1] * v[1] + v[2] * v[2])

cosine_similarity(a, b) ==
    Norm(Rat(a[1] * b[1] + a[2] * b[2], VecLen(a) * VecLen(b)))

RECURSIVE JoinWith(_, _)
JoinWith(sep, strs) ==
    IF strs = <<>> THEN <<>>
    ELSE IF Len(strs) = 1 THEN strs[1]
    ELSE strs[1] \o sep \o JoinWith(sep, Tail(strs))

\* str() of a name or description inside an f-string
Format(cell) == IF cell.t = "str" THEN cell.s ELSE <<"n", "a", "n">>

reference_text(criterion_description, keywords) ==
    Format(criterion_description)
        \o <<".", " ", "K", "e", "y", "w", "o", "r", "d", "s", ":", " ">>
        \o JoinWith(<<",", " ">>, keywords)

\* the embedding models of the inputs: deterministic functions of the text,
\* each raising on some texts and returning a vector on the others
EncodeCycle == <<Vec(3, 4), Raised, Vec(5, 12), Vec(-3, -4)>>

\* model.encode([text]) of embedding model m
encode(m, text) == EncodeCycle[((Len(text) + m) % Len(EncodeCycle)) + 1]

\* a slip of calculate_semantic_similarity: the similarity is not clamped
calculate_semantic_similarity_Unclamped(m, transcript, criterion_description, keywords) ==
    LET reference == reference_text(criterion_description, keywords)
        transcript_embedding == encode(m, transcript)
        reference_embedding == encode(m, reference)
    IN  IF ~transcript_embedding.ok \/ ~reference_embedding.ok
        THEN RInt(0)
        ELSE RMul(cosine_similarity(transcript_embedding.vec, reference_embedding.vec),
                  RInt(100))

\* a slip of calculate_semantic_similarity: the except clause returns a
\* neutral 50.0
calculate_semantic_similarity_Neutral(m, transcript, criterion_description, keywords) ==
    LET reference == reference_text(criterion_description, keywords)
        transcript_embedding == encode(m, transcript)
        reference_embedding == encode(m, reference)
    IN  IF ~transcript_embedding.ok \/ ~reference_embedding.ok
        THEN RInt(50)
        ELSE LET similarity == cosine_similarity(transcript_embedding.vec,
                                                 reference_embedding.vec)
             IN  RMax(RInt(0), RMin(RInt(100), RMul(similarity, RInt(100))))

\* calculate_semantic_similarity: the first encode call that raises ends the
\* try block, and the except clause returns 0.0
calculate_semantic_similarity(m, transcript, criterion_description, keywords) ==
    LET reference == reference_text(criterion_description, keywords)
        transcript_embedding == encode(m, transcript)
        reference_embedding == encode(m, reference)
    IN  IF ~transcript_embedding.ok \/ ~reference_embedding.ok
        THEN RInt(0)
        ELSE LET similarity == cosine_similarity(transcript_embedding.vec,
                                                 reference_embedding.vec)
                 similarity_score == RMul(similarity, RInt(100))
             IN  RMax(RInt(0), RMin(RInt(100), similarity_score))

(***************************************************************************)
(* Result models (models/schemas.py and backend_api.py)                    *)
(***************************************************************************)
\* a string field: str_strip_whitespace is set in models/schemas.py only
StrField(impl, s) == IF impl = "modular" THEN strip(s) ELSE s

\* CriterionResult(...): validation fails unless name and description are strings
CriterionResult(impl, name, description, score, semantic_similarity, keywords_found, keywords_missing, length_feedback, weight) ==
    IF name.t # "str" \/ description.t # "str"
    THEN [ok |-> FALSE, name |-> <<>>, description |-> <<>>, score |-> RInt(0),
          semantic_similarity |-> RInt(0), keywords_found |-> <<>>,
          keywords_missing |-> <<>>, length_feedback |-> Feedback("", 0, 0),
          weight |-> RInt(0)]
    ELSE [ok |-> TRUE,
          name |-> StrField(impl, name.s),
          description |-> StrField(impl, description.s),
          score |-> score,
          semantic_similarity |-> semantic_similarity,
          keywords_found |->
              Tup([i \in DOMAIN keywords_found |-> StrField(impl, keywords_found[i])]),
          keywords_missing |->
              Tup([i \in DOMAIN keywords_missing |-> StrField(impl, keywords_missing[i])]),
          length_feedback |-> length_feedback,
          weight |-> weight]

SubKeywordWeight == Rat(40, 100)
SubSemanticWeight == Rat(50, 100)
SubLengthWeight == Rat(10, 100)

\* a slip of score_criterion: the sub-scores are rounded before they are combined
score_criterion_RoundedParts(impl, m, transcript, criterion, word_count) ==
    LET kw == check_keywords(transcript, criterion.keywords, DefaultFuzzyThreshold)
        semantic_score ==
            calculate_semantic_similarity(m, transcript, criterion.description,
                                          criterion.keywords)
        wc == calculate_word_count_score(word_count, criterion.min_words,
                                         criterion.max_words)
        criterion_score ==
            RAdd(RAdd(RMul(round1(kw.keyword_score), SubKeywordWeight),
                      RMul(round1(semantic_score), SubSemanticWeight)),
                 RMul(round1(wc.score), SubLengthWeight))
    IN  CriterionResult(impl, criterion.name, criterion.description,
                        round1(criterion_score), round1(semantic_score),
                        kw.found, kw.missing, wc.feedback, criterion.weight)

score_criterion(impl, m, transcript, criterion, word_count) ==
    LET kw == check_keywords(transcript, criterion.keywords, DefaultFuzzyThreshold)
        semantic_score ==
            calculate_semantic_similarity(m, transcript, criterion.description,
                                          criterion.keywords)
        wc == calculate_word_count_score(word_count, criterion.min_words,
                                         criterion.max_words)
        criterion_score ==
            RAdd(RAdd(RMul(kw.keyword_score, SubKeywordWeight),
                      RMul(semantic_score, SubSemanticWeight)),
                 RMul(wc.score, SubLengthWeight))
    IN  CriterionResult(impl, criterion.name, criterion.description,
                        round1(criterion_score), round1(semantic_score),
                        kw.found, kw.missing, wc.feedback, criterion.weight)

\* a slip of score_transcript: the weighted sum is divided by the total weight
RECURSIVE SumOver(_, _, _)
SumOver(results, i, weighted) ==
    IF i > Len(results) THEN RInt(0)
    ELSE RAdd(IF weighted THEN RMul(results[i].score, results[i].weight)
              ELSE results[i].weight,
              SumOver(results, i + 1, weighted))

WeightedSum_Normalized(results, i) ==
    LET total == SumOver(results, i, TRUE)
        weights == SumOver(results, i, FALSE)
    IN  IF weights.num = 0 THEN total
        ELSE Norm(Rat(total.num * weights.den, total.den * weights.num))

\* sum(result.score * result.weight for result in criteria_results)
RECURSIVE WeightedSum(_, _)
WeightedSum(results, i) ==
    IF i > Len(results) THEN RInt(0)
    ELSE RAdd(RMul(results[i].score, results[i].weight), WeightedSum(results, i + 1))

\* a slip of score_transcript: the criteria are returned best score first
RECURSIVE InsertByScore(_, _)
InsertByScore(sorted, result) ==
    IF sorted = <<>> THEN <<result>>
    ELSE IF RLt(sorted[1].score, result.score) THEN <<result>> \o sorted
    ELSE <<sorted[1]>> \o InsertByScore(Tail(sorted), result)

RECURSIVE SortByScore(_, _)
SortByScore(results, i) ==
    IF i = 0 THEN <<>>
    ELSE InsertByScore(SortByScore(results, i - 1), results[i])

ScoringResponse_BestFirst(overall_score, total_words, criteria) ==
    [overall_score |-> overall_score, total_words |-> total_words,
     criteria |-> SortByScore(criteria, Len(criteria))]

ScoringResponse(overall_score, total_words, criteria) ==
    [overall_score |-> overall_score, total_words |-> total_words, criteria |-> criteria]

NoResponse == ScoringResponse(RInt(0), 0, <<>>)

(***************************************************************************)
(* Limits of the two validations                                           *)
(***************************************************************************)
MinLength == 10          \* Field(min_length=10)
MaxLength == 5000        \* Field(max_length=5000)
MinWordCount == 10       \* if word_count < 10
MaxWordCount == 500      \* if word_count > 500

\* TranscriptRequest(transcript=body): the validated field, or a validation
\* error, which FastAPI answers with 422 before the endpoint runs
TranscriptRequest(impl, body) ==
    LET transcript == StrField(impl, body)
    IN  [ok |-> Len(transcript) >= MinLength /\ Len(transcript) <= MaxLength,
         transcript |-> transcript]

\* what the endpoint's try/except makes of an exception raised below it
HTTPException(status_code) == [kind |-> "HTTPException", status_code |-> status_code]
OtherException(kind) == [kind |-> kind, status_code |-> 0]

\* a slip of the endpoint: no `except HTTPException: raise` clause
RouteStatus_NoReraise(exc) == 500

RouteStatus(exc) ==
    IF exc.kind = "HTTPException" THEN exc.status_code ELSE 500

\* a slip of the validation: <= and >= for < and >
ValidateWordCount_Inclusive(word_count) ==
    IF word_count <= MinWordCount THEN [ok |-> FALSE, exc |-> HTTPException(400)]
    ELSE IF word_count >= MaxWordCount THEN [ok |-> FALSE, exc |-> HTTPException(400)]
    ELSE [ok |-> TRUE, exc |-> OtherException("")]

\* the check of the word count at the head of score_transcript
ValidateWordCount(word_count) ==
    IF word_count < MinWordCount THEN [ok |-> FALSE, exc |-> HTTPException(400)]
    ELSE IF word_count > MaxWordCount THEN [ok |-> FALSE, exc |-> HTTPException(400)]
    ELSE [ok |-> TRUE, exc |-> OtherException("")]

(***************************************************************************)
(* Inputs                                                                  *)
(***************************************************************************)
MaxRows == 2             \* rows of a rubric sheet
MaxReq == 2              \* requests in flight together

Spaces(n) == Tup([i \in 1..n |-> " "])

\* the words of cycle, each followed by one space
RECURSIVE Period(_, _)
Period(cycle, k) ==
    IF k = 0 THEN <<>> ELSE Period(cycle, k - 1) \o cycle[k] \o <<" ">>

\* n words, cycle repeated, separated by one space
Repeat(cycle, n) ==
    LET whole == Period(cycle, Len(cycle))
        length == (n \div Len(cycle)) * Len(whole)
                  + Len(Period(cycle, n % Len(cycle))) - 1
    IN  Tup([i \in 1..length |-> whole[((i - 1) % Len(whole)) + 1]])

\* the transcript: n words of cycle, pad spaces on both ends
Text(cycle, n, pad) == Spaces(pad) \o Repeat(cycle, n) \o Spaces(pad)

Filler == << <<"w","o","r","d">> >>
LongWords == << <<"u","n","d","e","r","s","t","a","n","d","a","b","l","e">> >>
Mixed == << <<"C","l","e","a","r",",">>, <<"o","r","g","a","n","i","s","e","d">>,
            <<"d","a","t","a",".">>, <<"u","m">> >>

\* "This is too short." of test_script.py
TooShort == <<"T","h","i","s"," ","i","s"," ","t","o","o"," ","s","h","o","r","t",".">>

\* word counts around the two limits, and the 600 words of test_script.py
WordCountCases == {1, 9, 10, 50, 500, 501, 600}

TranscriptInputs ==
    {Text(c, n, 0) : c \in {Filler, LongWords}, n \in WordCountCases}
        \cup {Text(Mixed, n, 0) : n \in {1, 9, 10, 50}}
        \cup {Text(Filler, n, 2) : n \in {2, 9, 10}}
        \cup {TooShort}

\* rows a rubric sheet may hold
RowTone ==
    [name |-> Str(<<"T","o","n","e">>),
     description |-> Str(<<"W","a","r","m"," ","t","o","n","e">>),
     keywords |-> Str(<<"c","l","e","a","r",",","d","a","t","a">>),
     weight |-> Num(Rat(1, 2)), min_words |-> Num(RInt(20)), max_words |-> Num(RInt(100))]

RowPadded ==
    [name |-> Str(<<" ","P","a","c","e"," ">>),
     description |-> Str(<<"S","t","e","a","d","y"," ","p","a","c","e"," ">>),
     keywords |-> Str(<<"u","m",","," ","w","o","r","d">>),
     weight |-> Str(<<"1">>), min_words |-> NaN, max_words |-> NaN]

RowNoName ==
    [name |-> NaN,
     description |-> Str(<<"N","o"," ","n","a","m","e">>),
     keywords |-> Str(<<"d","a","t","a">>),
     weight |-> Num(Rat(1, 2)), min_words |-> NaN, max_words |-> Num(RInt(30))]

RowNoKeywords ==
    [name |-> Str(<<"B","a","r","e">>),
     description |-> Str(<<"N","o"," ","k","e","y","w","o","r","d","s">>),
     keywords |-> NaN,
     weight |-> Num(RInt(25)), min_words |-> Num(RInt(0)), max_words |-> Num(RInt(10))]

RowBadWeight ==
    [name |-> Str(<<"O","d","d">>),
     description |-> Str(<<"B","a","d"," ","w","e","i","g","h","t">>),
     keywords |-> Str(<<"u","m">>),
     weight |-> Str(<<"h","i","g","h">>), min_words |-> NaN, max_words |-> NaN]

RubricRows == <<RowTone, RowPadded, RowNoName, RowNoKeywords, RowBadWeight>>

\* the sheets of the model: up to MaxRows consecutive rows of RubricRows
Window(k, n) == Tup([i \in 1..n |-> RubricRows[((k + i - 2) % Len(RubricRows)) + 1]])

RubricFiles ==
    {NoFile} \cup {ExcelFile(Window(k, n)) : k \in DOMAIN RubricRows, n \in 0..MaxRows}

(***************************************************************************)
(* Requests                                                                *)
(***************************************************************************)
NoException == OtherException("")

NewRequest(impl, body) ==
    [impl |-> impl,
     body |-> body,
     pc |-> "received",
     transcript |-> <<>>,
     word_count |-> 0,
     rubric |-> <<>>,
     criteria_results |-> <<>>,
     events |-> <<>>,
     exc |-> NoException,
     status |-> 0,
     response |-> NoResponse]

NoLab == [op |-> "none"]

Init ==
    /\ rubricFile \in RubricFiles
    /\ embedModel \in 0..(Len(EncodeCycle) - 1)
    /\ \E impl \in {"modular", "monolith"}, body \in TranscriptInputs :
          /\ impl = "monolith" => rubricFile = NoFile
          /\ req = <<NewRequest(impl, body)>>
    /\ lab = NoLab

\* the request leaves the endpoint with an exception
Fail(rq, exc) ==
    [rq EXCEPT !.pc = "done", !.exc = exc, !.status = RouteStatus(exc)]

\* FastAPI validates the body against TranscriptRequest before the endpoint
ParseRequest(r) ==
    /\ req[r].pc = "received"
    /\ LET parsed == TranscriptRequest(req[r].impl, req[r].body)
       IN  req' = [req EXCEPT ![r] =
                IF parsed.ok
                THEN [@ EXCEPT !.pc = "routed", !.transcript = parsed.transcript]
                ELSE [@ EXCEPT !.pc = "done", !.status = 422,
                               !.exc = OtherException("RequestValidationError")]]
    /\ UNCHANGED <<rubricFile, embedModel, lab>>

\* a slip of score_transcript: the rubric is loaded before the word count
\* is validated
Validate_LoadFirst(r) ==
    /\ req[r].pc = "routed"
    /\ LET transcript == strip(req[r].transcript)
           word_count == count_words(transcript)
           checked == ValidateWordCount(word_count)
           loaded == [req[r] EXCEPT !.transcript = transcript,
                                    !.word_count = word_count,
                                    !.rubric = load_rubric(req[r].impl, rubricFile),
                                    !.events = Append(@, "load_rubric")]
       IN  req' = [req EXCEPT ![r] =
                IF checked.ok
                THEN [loaded EXCEPT !.pc = "scoring"]
                ELSE Fail(loaded, checked.exc)]
    /\ UNCHANGED <<rubricFile, embedModel, lab>>

\* score_transcript: strip, count the words, validate the count
Validate(r) ==
    /\ req[r].pc = "routed"
    /\ LET transcript == strip(req[r].transcript)
           word_count == count_words(transcript)
           checked == ValidateWordCount(word_count)
       IN  req' = [req EXCEPT ![r] =
                IF checked.ok
                THEN [@ EXCEPT !.pc = "validated", !.transcript = transcript,
                               !.word_count = word_count]
                ELSE Fail([@ EXCEPT !.transcript = transcript,
                                    !.word_count = word_count], checked.exc)]
    /\ UNCHANGED <<rubricFile, embedModel, lab>>

\* rubric = load_rubric()
LoadRubric(r) ==
    /\ req[r].pc = "validated"
    /\ req' = [req EXCEPT ![r] =
            [@ EXCEPT !.pc = "scoring",
                      !.rubric = load_rubric(req[r].impl, rubricFile),
                      !.events = Append(@, "load_rubric")]]
    /\ UNCHANGED <<rubricFile, embedModel, lab>>

\* a slip of score_transcript: criteria_results is one list of the module,
\* shared by the requests
ResultsSoFar_Shared(rq, r) == rq[1].criteria_results

\* the criteria_results list of request r
ResultsSoFar(rq, r) == rq[r].criteria_results

\* the calls of one score_criterion, as the request's events
CriterionCalls(m, transcript, criterion) ==
    LET t_ok == encode(m, transcript).ok
        r_ok == encode(m, reference_text(criterion.description, criterion.keywords)).ok
    IN  <<"check_keywords", "encode">>
            \o (IF t_ok THEN <<"encode">> ELSE <<>>)
            \o (IF t_ok /\ r_ok THEN <<>> ELSE <<"encode raised">>)
            \o <<"calculate_word_count_score">>

\* one turn of the for loop of score_transcript: score_criterion on the next
\* criterion, its result appended; a validation error of CriterionResult
\* leaves score_transcript and reaches the endpoint's except clause
ScoreCriterion(r) ==
    /\ req[r].pc = "scoring"
    /\ Len(ResultsSoFar(req, r)) < Len(req[r].rubric)
    /\ LET criterion == req[r].rubric[Len(ResultsSoFar(req, r)) + 1]
           result == score_criterion(req[r].impl, embedModel, req[r].transcript,
                                     criterion, req[r].word_count)
           calls == CriterionCalls(embedModel, req[r].transcript, criterion)
       IN  req' = [req EXCEPT ![r] =
                IF result.ok
                THEN [@ EXCEPT !.criteria_results = Append(ResultsSoFar(req, r), result),
                               !.events = @ \o calls]
                ELSE Fail([@ EXCEPT !.events = @ \o calls],
                          OtherException("ValidationError"))]
    /\ UNCHANGED <<rubricFile, embedModel, lab>>

\* the weighted sum and the response
Aggregate(r) ==
    /\ req[r].pc = "scoring"
    /\ Len(ResultsSoFar(req, r)) = Len(req[r].rubric)
    /\ LET overall_score == WeightedSum(ResultsSoFar(req, r), 1)
       IN  req' = [req EXCEPT ![r] =
                [@ EXCEPT !.pc = "done", !.status = 200,
                          !.response = ScoringResponse(round1(overall_score),
                                                       req[r].word_count,
                                                       ResultsSoFar(req, r))]]
    /\ UNCHANGED <<rubricFile, embedModel, lab>>

Next ==
    \E r \in DOMAIN req :
        \/ ParseRequest(r)
        \/ Validate(r)
        \/ LoadRubric(r)
        \/ ScoreCriterion(r)
        \/ Aggregate(r)

Spec == Init /\ [][Next]_vars

(***************************************************************************)
(* The handler as a function of its inputs                                 *)
(***************************************************************************)
\* the for loop of score_transcript from criterion i on: the results, or
\* the validation error of the first CriterionResult that fails
RECURSIVE ScoreFrom(_, _, _, _, _, _, _)
ScoreFrom(impl, m, transcript, rubric, word_count, i, results) ==
    IF i > Len(rubric) THEN [ok |-> TRUE, results |-> results]
    ELSE LET result == score_criterion(impl, m, transcript, rubric[i], word_count)
         IN  IF result.ok
             THEN ScoreFrom(impl, m, transcript, rubric, word_count, i + 1,
                            Append(results, result))
             ELSE [ok |-> FALSE, results |-> results]

\* score_transcript(transcript), with the rubric file and the embedding
\* model it reads: the exception it raises, or its response
score_transcript(impl, m, file, text) ==
    LET transcript == strip(text)
        word_count == count_words(transcript)
        checked == ValidateWordCount(word_count)
        rubric == load_rubric(impl, file)
        scored == ScoreFrom(impl, m, transcript, rubric, word_count, 1, <<>>)
    IN  IF ~checked.ok THEN [exc |-> checked.exc, response |-> NoResponse]
        ELSE IF ~scored.ok
        THEN [exc |-> OtherException("ValidationError"), response |-> NoResponse]
        ELSE [exc |-> NoException,
              response |-> ScoringResponse(round1(WeightedSum(scored.results, 1)),
                                           word_count, scored.results)]

\* POST /score: the status and the response body
score_transcript_endpoint(impl, m, file, body) ==
    LET parsed == TranscriptRequest(impl, body)
        result == score_transcript(impl, m, file, parsed.transcript)
    IN  IF ~parsed.ok THEN [status |-> 422, response |-> NoResponse]
        ELSE IF result.exc # NoException
        THEN [status |-> RouteStatus(result.exc), response |-> NoResponse]
        ELSE [status |-> 200, response |-> result.response]

(***************************************************************************)
(* Requests in flight together                                             *)
(***************************************************************************)
ConcurrentTranscripts == {Text(Mixed, 10, 0), Text(Filler, 10, 2), Text(Filler, 9, 0)}

InitConcurrent ==
    /\ rubricFile \in {ExcelFile(<<RowTone, RowPadded>>), ExcelFile(<<RowNoKeywords>>)}
    /\ embedModel \in {0, 2}
    /\ \E bodies \in [1..MaxReq -> ConcurrentTranscripts] :
          req = Tup([r \in 1..MaxReq |-> NewRequest("modular", bodies[r])])
    /\ lab = NoLab

SpecConcurrent == InitConcurrent /\ [][Next]_vars

(***************************************************************************)
(* One body posted to both services                                        *)
(***************************************************************************)
\* bodies with and without padding, around the limits of both validations
PairedTranscripts ==
    {Text(Filler, 2, 2), Text(Filler, 10, 2), Text(Filler, 9, 0),
     Text(Mixed, 10, 0), Text(LongWords, 333, 10), TooShort}

\* request 1 goes to api/routes.py, request 2 to backend_api.py; no rubric
\* sheet, so both score against the default rubric
InitPaired ==
    /\ rubricFile = NoFile
    /\ embedModel \in 0..(Len(EncodeCycle) - 1)
    /\ \E body \in PairedTranscripts :
          req = <<NewRequest("modular", body), NewRequest("monolith", body)>>
    /\ lab = NoLab

SpecPaired == InitPaired /\ [][Next]_vars

(***************************************************************************)
(* Direct calls of the pure helpers                                        *)
(***************************************************************************)
MaxTextLen == 3          \* characters of a transcript in a direct call
MaxKeywords == 2         \* keywords in a direct call
MaxBand == 5             \* largest min_words and max_words in a direct call
MaxExcess == 501         \* how far word_count goes beyond max_words

\* the sequences over chars of length up to n
RECURSIVE SeqsUpTo(_, _)
SeqsUpTo(chars, n) ==
    IF n = 0 THEN {<<>>}
    ELSE LET shorter == SeqsUpTo(chars, n - 1)
         IN  shorter \cup {Append(s, c) : s \in shorter, c \in chars}

LabTranscripts == SeqsUpTo({"a", "B", " "}, MaxTextLen) \cup {Text(Mixed, 4, 0)}

LabKeywords ==
    SeqsUpTo({<<>>, <<"a">>, <<"B">>, <<"a", "B">>, <<"b", "a">>,
              <<"O","r","g","a","n","i","z","e","d">>}, MaxKeywords)

InitKeywords ==
    /\ rubricFile = NoFile
    /\ embedModel = 0
    /\ req = <<>>
    /\ \E transcript \in LabTranscripts, keywords \in LabKeywords,
          fuzzy_threshold \in {DefaultFuzzyThreshold, 60} :
          lab = [op |-> "check_keywords", called |-> FALSE,
                 transcript |-> transcript, keywords |-> keywords,
                 fuzzy_threshold |-> fuzzy_threshold,
                 found |-> <<>>, missing |-> <<>>, keyword_score |-> RInt(0)]

CallCheckKeywords ==
    /\ lab.op = "check_keywords"
    /\ ~lab.called
    /\ LET result == check_keywords(lab.transcript, lab.keywords, lab.fuzzy_threshold)
       IN  lab' = [lab EXCEPT !.called = TRUE, !.found = result.found,
                              !.missing = result.missing,
                              !.keyword_score = result.keyword_score]
    /\ UNCHANGED <<rubricFile, embedModel, req>>

NextKeywords == CallCheckKeywords

SpecKeywords == InitKeywords /\ [][NextKeywords]_vars

InitLength ==
    /\ rubricFile = NoFile
    /\ embedModel = 0
    /\ req = <<>>
    /\ \E min_words \in 1..MaxBand :
       \E max_words \in min_words..MaxBand :
       \E word_count \in 0..(max_words + MaxExcess) :
          lab = [op |-> "calculate_word_count_score", called |-> FALSE,
                 word_count |-> word_count, min_words |-> min_words,
                 max_words |-> max_words,
                 score |-> RInt(0), feedback |-> Feedback("", 0, 0)]

CallWordCountScore ==
    /\ lab.op = "calculate_word_count_score"
    /\ ~lab.called
    /\ LET result == calculate_word_count_score(lab.word_count, lab.min_words,
                                                lab.max_words)
       IN  lab' = [lab EXCEPT !.called = TRUE, !.score = result.score,
                              !.feedback = result.feedback]
    /\ UNCHANGED <<rubricFile, embedModel, req>>

NextLength == CallWordCountScore

SpecLength == InitLength /\ [][NextLength]_vars

MaxInputLen == 4         \* characters of the text in a direct call of preprocess_text

PreprocessChars == {"a", "B", "7", "_", ".", " ", "\t"}

InitPreprocess ==
    /\ rubricFile = NoFile
    /\ embedModel = 0
    /\ req = <<>>
    /\ \E text \in SeqsUpTo(PreprocessChars, MaxInputLen) :
          lab = [op |-> "preprocess_text", called |-> FALSE, text |-> text,
                 out |-> <<>>, again |-> <<>>]

\* preprocess_text(text), and preprocess_text of what it returned
CallPreprocess ==
    /\ lab.op = "preprocess_text"
    /\ ~lab.called
    /\ LET out == preprocess_text(lab.text)
       IN  lab' = [lab EXCEPT !.called = TRUE, !.out = out,
                              !.again = preprocess_text(out)]
    /\ UNCHANGED <<rubricFile, embedModel, req>>

NextPreprocess == CallPreprocess

SpecPreprocess == InitPreprocess /\ [][NextPreprocess]_vars

(***************************************************************************)
(* Properties                                                              *)
(***************************************************************************)
\* the number of words of a text: the places where a run of characters
\* other than whitespace begins
NumWords(text) ==
    Cardinality({i \in DOMAIN text :
                    ~IsSpace(text[i]) /\ (i = 1 \/ IsSpace(text[i - 1]))})

\* the request went through the word count validation of score_transcript
PastValidation(rq) ==
    rq.pc \in {"validated", "scoring", "done"}
        /\ rq.exc.kind # "RequestValidationError"

\* C1: score_transcript fails with InvalidInput (HTTPException 400) exactly
\* when the transcript has fewer than 10 or more than 500 words, and every
\* successful result reports that word count as total_words
C1_ValidationBoundary ==
    \A r \in DOMAIN req :
        PastValidation(req[r]) =>
            LET n == NumWords(req[r].body)
            IN  /\ (req[r].exc = HTTPException(400)) <=> (n < 10 \/ n > 500)
                /\ req[r].status = 200 =>
                      /\ req[r].response.total_words = n
                      /\ 10 <= n /\ n <= 500

C1_Witness ==
    \E r \in DOMAIN req :
        /\ req[r].status = 200
        /\ req[r].response.total_words = 500
        /\ NumWords(req[r].body) = 500

\* the length FastAPI's validation of the body measures
ValidatedLength(rq) ==
    IF rq.impl = "modular" THEN Len(strip(rq.body)) ELSE Len(rq.body)

Done(rq) == rq.pc = "done"

\* C2 as stated: every transcript with fewer than 10 or more than 500 words
\* is answered with status 400, whatever its length in characters
C2_Original ==
    \A r \in DOMAIN req :
        Done(req[r]) /\ (NumWords(req[r].body) < 10 \/ NumWords(req[r].body) > 500)
            => req[r].status = 400

\* C2, amended: a transcript with fewer than 10 or more than 500 words is
\* answered with status 400 when its length is within 10..5000 characters
\* (the scorer's failure passes through the endpoint unchanged), and with
\* status 422 by the validation of the request body otherwise; never 500
C2_WordCountRejected ==
    \A r \in DOMAIN req :
        Done(req[r]) /\ (NumWords(req[r].body) < 10 \/ NumWords(req[r].body) > 500)
            => req[r].status =
                  (IF 10 <= ValidatedLength(req[r]) /\ ValidatedLength(req[r]) <= 5000
                   THEN 400 ELSE 422)

C2_Witness ==
    \E r \in DOMAIN req :
        /\ Done(req[r])
        /\ NumWords(req[r].body) > 500
        /\ req[r].status = 400
        /\ req[r].exc = HTTPException(400)

\* the weights of a rubric are not negative and sum to at most 1
RECURSIVE SumWeights(_, _)
SumWeights(rubric, i) ==
    IF i > Len(rubric) THEN RInt(0)
    ELSE RAdd(rubric[i].weight, SumWeights(rubric, i + 1))

WeightsWithinOne(rubric) ==
    /\ \A i \in DOMAIN rubric : RLe(RInt(0), rubric[i].weight)
    /\ RLe(SumWeights(rubric, 1), RInt(1))

InPercentRange(x) == RLe(RInt(0), x) /\ RLe(x, RInt(100))

\* C3 as stated: for every rubric load_rubric can return, the overall score
\* and every criterion score of a successful response lie in 0..100
C3_Original ==
    \A r \in DOMAIN req :
        req[r].status = 200 =>
            /\ InPercentRange(req[r].response.overall_score)
            /\ \A i \in DOMAIN req[r].response.criteria :
                  InPercentRange(req[r].response.criteria[i].score)

\* C3, amended: every criterion score lies in 0..100 for every rubric; the
\* overall score lies in 0..100 when the weights of the rubric are not
\* negative and sum to at most 1, as those of the default rubric do
C3_ScoresInRange ==
    \A r \in DOMAIN req :
        req[r].status = 200 =>
            /\ \A i \in DOMAIN req[r].response.criteria :
                  InPercentRange(req[r].response.criteria[i].score)
            /\ WeightsWithinOne(req[r].rubric) =>
                  InPercentRange(req[r].response.overall_score)

C3_Witness ==
    \E r \in DOMAIN req :
        /\ req[r].status = 200
        /\ req[r].rubric = DefaultRubric
        /\ RLt(RInt(0), req[r].response.overall_score)
        /\ \E i \in DOMAIN req[r].response.criteria :
              req[r].response.criteria[i].semantic_similarity = RInt(0)

\* an encode call of score_criterion on this criterion raises
EmbeddingFails(m, transcript, criterion) ==
    \/ ~encode(m, transcript).ok
    \/ ~encode(m, reference_text(criterion.description, criterion.keywords)).ok

\* every name and description of the rubric is a string
WellFormed(rubric) ==
    \A i \in DOMAIN rubric :
        rubric[i].name.t = "str" /\ rubric[i].description.t = "str"

\* C5: when the embedding call fails for a criterion, the criterion is
\* scored with semantic_similarity 0.0, the other criteria are scored too and
\* the request ends with a successful response
C5_EmbeddingFailureAbsorbed ==
    \A r \in DOMAIN req :
        /\ \A i \in DOMAIN req[r].criteria_results :
              EmbeddingFails(embedModel, req[r].transcript, req[r].rubric[i])
                  => req[r].criteria_results[i].semantic_similarity = RInt(0)
        /\ ( /\ Done(req[r])
             /\ WellFormed(req[r].rubric)
             /\ \E i \in DOMAIN req[r].rubric :
                   EmbeddingFails(embedModel, req[r].transcript, req[r].rubric[i]) )
              => /\ req[r].status = 200
                 /\ Len(req[r].response.criteria) = Len(req[r].rubric)
                 /\ \A i \in DOMAIN req[r].rubric :
                       EmbeddingFails(embedModel, req[r].transcript, req[r].rubric[i])
                           => req[r].response.criteria[i].semantic_similarity = RInt(0)

C5_Witness ==
    \E r \in DOMAIN req :
        /\ req[r].status = 200
        /\ encode(embedModel, req[r].transcript).ok
        /\ \E i, j \in DOMAIN req[r].rubric :
              /\ EmbeddingFails(embedModel, req[r].transcript, req[r].rubric[i])
              /\ req[r].response.criteria[i].semantic_similarity = RInt(0)
              /\ ~EmbeddingFails(embedModel, req[r].transcript, req[r].rubric[j])
              /\ RLt(RInt(0), req[r].response.criteria[j].semantic_similarity)

\* the request passed both validations
Accepted(rq) ==
    rq.pc \in {"validated", "scoring", "done"}
        /\ rq.exc.kind \notin {"RequestValidationError", "HTTPException"}

\* C6: a data issue of one criterion of the rubric never aborts the request
\* and never keeps the other criteria from being scored: every request with
\* a valid transcript ends with a response that has a result per criterion
C6_NoAbortOnCriterionData ==
    \A r \in DOMAIN req :
        Done(req[r]) /\ Accepted(req[r])
            => /\ req[r].status = 200
               /\ Len(req[r].response.criteria) = Len(req[r].rubric)

\* C8 as stated: one result per criterion, in the order of the rubric, name,
\* description and weight copied from the criterion at the same position
C8_Original ==
    \A r \in DOMAIN req :
        req[r].status = 200 =>
            /\ Len(req[r].response.criteria) = Len(req[r].rubric)
            /\ \A i \in DOMAIN req[r].rubric :
                  /\ req[r].response.criteria[i].name = req[r].rubric[i].name.s
                  /\ req[r].response.criteria[i].description
                        = req[r].rubric[i].description.s
                  /\ req[r].response.criteria[i].weight = req[r].rubric[i].weight

\* the text without the whitespace at its two ends
Trimmed(text) ==
    LET solid == {i \in DOMAIN text : ~IsSpace(text[i])}
    IN  IF solid = {} THEN <<>>
        ELSE SubSeq(text, CHOOSE i \in solid : \A j \in solid : i <= j,
                          CHOOSE i \in solid : \A j \in solid : j <= i)

\* C8, amended: one result per criterion, in the order of the rubric and
\* whatever the scores; the weight is the criterion's, the name and the
\* description are the criterion's without leading and trailing whitespace
C8_RubricOrder ==
    \A r \in DOMAIN req :
        req[r].status = 200 =>
            /\ Len(req[r].response.criteria) = Len(req[r].rubric)
            /\ \A i \in DOMAIN req[r].rubric :
                  /\ req[r].response.criteria[i].name
                        = Trimmed(req[r].rubric[i].name.s)
                  /\ req[r].response.criteria[i].description
                        = Trimmed(req[r].rubric[i].description.s)
                  /\ req[r].response.criteria[i].weight = req[r].rubric[i].weight

C8_Witness ==
    \E r \in DOMAIN req :
        /\ req[r].status = 200
        /\ Len(req[r].response.criteria) >= 2
        /\ RLt(req[r].response.criteria[1].score, req[r].response.criteria[2].score)
        /\ req[r].response.criteria[2].name # req[r].rubric[2].name.s

\* load_rubric returns the built-in rubric for this request
UsesDefaultRubric(rq) ==
    /\ rq.pc \in {"scoring", "done"}
    /\ rq.exc.kind = ""
    /\ \/ rq.impl = "monolith"
       \/ ~rubricFile.exists
       \/ \E i \in DOMAIN rubricFile.rows : rubricFile.rows[i] = RowBadWeight

DefaultNames ==
    <<<<"C","l","a","r","i","t","y"," ","a","n","d"," ","A","r","t","i","c","u","l","a","t","i","o","n">>,
      <<"C","o","n","t","e","n","t"," ","Q","u","a","l","i","t","y">>,
      <<"E","n","g","a","g","e","m","e","n","t">>,
      <<"L","a","n","g","u","a","g","e"," ","P","r","o","f","i","c","i","e","n","c","y">>>>

DefaultWeights == <<Rat(25, 100), Rat(30, 100), Rat(20, 100), Rat(25, 100)>>

\* the part of C10 that does not count keywords: four criteria, their names
\* in order, their weights (which sum to 1.0), the word band 50..500
DefaultRubricShape(rubric) ==
    /\ Len(rubric) = 4
    /\ \A i \in 1..4 :
          /\ rubric[i].name = Str(DefaultNames[i])
          /\ REq(rubric[i].weight, DefaultWeights[i])
          /\ rubric[i].min_words = 50
          /\ rubric[i].max_words = 500
    /\ REq(SumWeights(rubric, 1), RInt(1))

\* C10 as stated: the default rubric is the four criteria, each with 8
\* keywords
C10_Original ==
    \A r \in DOMAIN req :
        UsesDefaultRubric(req[r]) =>
            /\ DefaultRubricShape(req[r].rubric)
            /\ \A i \in 1..4 : Len(req[r].rubric[i].keywords) = 8

\* C10, amended: the default rubric is the four criteria Clarity and
\* Articulation, Content Quality, Engagement, Language Proficiency with
\* weights 0.25, 0.30, 0.20, 0.25 and the word band 50..500; Content Quality
\* has 9 keywords, the other three have 8
C10_DefaultRubric ==
    \A r \in DOMAIN req :
        UsesDefaultRubric(req[r]) =>
            /\ DefaultRubricShape(req[r].rubric)
            /\ \A i \in 1..4 :
                  Len(req[r].rubric[i].keywords) = (IF i = 2 THEN 9 ELSE 8)

C10_Witness ==
    \E r \in DOMAIN req :
        /\ UsesDefaultRubric(req[r])
        /\ req[r].impl = "modular"
        /\ rubricFile.exists
        /\ req[r].status = 200
        /\ Len(req[r].response.criteria) = 4

\* the keywords at the positions where mask holds, in order
Masked(keywords, mask) ==
    LET In(i) == mask[i]
        kept == SelectSeq(Indices(keywords), In)
    IN  Tup([k \in DOMAIN kept |-> keywords[kept[k]]])

\* C4: found and missing partition the keyword list: each position of the
\* list goes to exactly one of them, each keeps the input's casing and
\* order, and no keyword is in both
C4_KeywordPartition ==
    lab.op = "check_keywords" /\ lab.called =>
        /\ \E mask \in [DOMAIN lab.keywords -> BOOLEAN] :
              /\ lab.found = Masked(lab.keywords, mask)
              /\ lab.missing = Masked(lab.keywords, [i \in DOMAIN mask |-> ~mask[i]])
        /\ Range(lab.found) \cap Range(lab.missing) = {}
        /\ Range(lab.found) \cup Range(lab.missing) = Range(lab.keywords)
        /\ Len(lab.found) + Len(lab.missing) = Len(lab.keywords)

C4_Witness ==
    /\ lab.op = "check_keywords" /\ lab.called
    /\ lab.fuzzy_threshold = 85
    /\ lab.keywords = << <<"O","r","g","a","n","i","z","e","d">>, <<"a", "B">> >>
    /\ lab.found = << <<"O","r","g","a","n","i","z","e","d">> >>
    /\ lab.missing = << <<"a", "B">> >>

\* C9: calculate_word_count_score is 100*word_count/min_words below the
\* band, max(50, 100 - min(50, 20*(word_count - max_words)/100)) above it
\* and 100 inside; so 100 at min_words and at max_words, below 100 at
\* min_words - 1, 50 at max_words + 500 and never below 50 above the band
C9_LengthScore ==
    lab.op = "calculate_word_count_score" /\ lab.called =>
        LET wc == lab.word_count
            lo == lab.min_words
            hi == lab.max_words
            excess == wc - hi
            \* five times the penalty: min(250, excess)
            penalty5 == IF excess < 250 THEN excess ELSE 250
        IN  /\ wc < lo => lab.score.num * lo = 100 * wc * lab.score.den
            /\ wc > hi /\ wc >= lo =>
                  /\ 5 * lab.score.num = (500 - penalty5) * lab.score.den
                  /\ lab.score.num >= 50 * lab.score.den
            /\ lo <= wc /\ wc <= hi => lab.score = RInt(100)
            /\ wc = lo - 1 => lab.score.num < 100 * lab.score.den
            /\ wc = hi + 500 => lab.score = RInt(50)

C9_Witness ==
    /\ lab.op = "calculate_word_count_score" /\ lab.called
    /\ lab.word_count = lab.max_words + 500
    /\ lab.score = RInt(50)

\* C7: under any interleaving of the requests in flight, each request ends
\* with the status and the response it has when it runs alone, so two
\* requests with the same transcript end with identical results
C7_RequestsIndependent ==
    \A r \in DOMAIN req :
        Done(req[r]) =>
            /\ [status |-> req[r].status, response |-> req[r].response]
                  = score_transcript_endpoint(req[r].impl, embedModel, rubricFile,
                                              req[r].body)
            /\ \A q \in DOMAIN req :
                  Done(req[q]) /\ req[q].impl = req[r].impl /\ req[q].body = req[r].body
                      => req[q].status = req[r].status
                         /\ req[q].response = req[r].response

C7_Witness ==
    \E r, q \in DOMAIN req :
        /\ r # q
        /\ req[r].body # req[q].body
        /\ Done(req[r]) /\ req[r].status = 200
        /\ req[r].response.criteria # <<>>
        /\ req[q].pc = "scoring"
        /\ req[q].criteria_results # <<>>
        /\ Len(req[q].criteria_results) < Len(req[q].rubric)

\* the three sub-scores of a criterion, as the helpers return them
SubScores(m, transcript, criterion, word_count) ==
    [keyword |-> check_keywords(transcript, criterion.keywords,
                                DefaultFuzzyThreshold).keyword_score,
     semantic |-> calculate_semantic_similarity(m, transcript, criterion.description,
                                                criterion.keywords),
     length |-> calculate_word_count_score(word_count, criterion.min_words,
                                           criterion.max_words).score]

\* 40% keyword + 50% semantic + 10% length, as one fraction
Composite(k, s, l) ==
    [num |-> 40 * k.num * s.den * l.den + 50 * s.num * k.den * l.den
             + 10 * l.num * k.den * s.den,
     den |-> 100 * k.den * s.den * l.den]

\* x is y rounded to one decimal: a number of tenths at most 1/20 from y,
\* an even number of tenths when y is half way
IsRoundedTo(x, y) ==
    LET gap == Abs(x.num * y.den - y.num * x.den)
    IN  /\ 10 % x.den = 0
        /\ 20 * gap <= x.den * y.den
        /\ 20 * gap = x.den * y.den => ((x.num * 10) \div x.den) % 2 = 0

\* C11: every criterion result carries the composite 0.40*keyword +
\* 0.50*semantic + 0.10*length of the unrounded sub-scores, rounded to one
\* decimal, and the unrounded semantic score rounded to one decimal
C11_CompositeThenRound ==
    \A r \in DOMAIN req :
        \A i \in DOMAIN req[r].criteria_results :
            LET sub == SubScores(embedModel, req[r].transcript, req[r].rubric[i],
                                 req[r].word_count)
                result == req[r].criteria_results[i]
            IN  /\ IsRoundedTo(result.score,
                               Composite(sub.keyword, sub.semantic, sub.length))
                /\ IsRoundedTo(result.semantic_similarity, sub.semantic)

\* a result whose sub-scores are not all numbers of tenths and whose
\* composite differs from the one of the rounded sub-scores
C11_Witness ==
    \E r \in DOMAIN req :
        \E i \in DOMAIN req[r].criteria_results :
            LET sub == SubScores(embedModel, req[r].transcript, req[r].rubric[i],
                                 req[r].word_count)
            IN  /\ Done(req[r]) /\ req[r].status = 200
                /\ 10 % sub.keyword.den # 0
                /\ 10 % sub.semantic.den # 0
                /\ ~IsRoundedTo(req[r].criteria_results[i].score,
                                Composite(round1(sub.keyword), round1(sub.semantic),
                                          round1(sub.length)))

\* the word count of the request's transcript is within the two limits
WithinWordLimits(rq) ==
    MinWordCount <= NumWords(rq.body) /\ NumWords(rq.body) <= MaxWordCount

\* no rubric loaded, no helper called, no criterion scored
NoScoringWork(rq) ==
    rq.events = <<>> /\ rq.rubric = <<>> /\ rq.criteria_results = <<>>

\* C12: a request whose word count is below 10 or above 500 never has its
\* rubric loaded, a keyword matching, a length scoring or an embedding call
\* done, up to and including its failure; and every step that loads the
\* rubric or scores a criterion belongs to a request that passed validation
C12_ValidationFirst ==
    /\ [](\A r \in DOMAIN req :
            /\ ~WithinWordLimits(req[r]) => NoScoringWork(req[r])
            /\ req[r].exc = HTTPException(400) => NoScoringWork(req[r])
            /\ ~NoScoringWork(req[r]) => PastValidation(req[r]))
    /\ [][\A r \in DOMAIN req :
            (req'[r].events # req[r].events
                \/ req'[r].rubric # req[r].rubric
                \/ req'[r].criteria_results # req[r].criteria_results)
            => /\ req[r].pc \in {"validated", "scoring"}
               /\ WithinWordLimits(req[r])]_vars

\* the 600 words of test_script.py, rejected with 400 and nothing done
C12_Witness ==
    \E r \in DOMAIN req :
        /\ Done(req[r])
        /\ req[r].exc = HTTPException(400)
        /\ req[r].word_count = 600
        /\ NoScoringWork(req[r])

\* the keyword matches the transcript: its lowercased form is a substring
\* of the normalized transcript, or is similar enough to one of its tokens
Matches(transcript, keyword, fuzzy_threshold) ==
    LET normalized == preprocess_text(transcript)
    IN  \/ Contains(normalized, lower(keyword))
        \/ \E word \in Range(split(normalized)) :
              fuzz_ratio(lower(keyword), word) >= fuzzy_threshold

\* found holds exactly the keywords that match
FoundAsSpecified ==
    \A i \in DOMAIN lab.keywords :
        (lab.keywords[i] \in Range(lab.found))
            <=> Matches(lab.transcript, lab.keywords[i], lab.fuzzy_threshold)

\* keyword_score is 100 * |found| / |keywords|, and 0 for no keywords
ScoreAsSpecified ==
    IF lab.keywords = <<>> THEN lab.keyword_score = RInt(0)
    ELSE lab.keyword_score.num * Len(lab.keywords)
            = 100 * Len(lab.found) * lab.keyword_score.den

\* for an empty transcript every keyword is missing and the score is 0
EmptyTranscriptAllMissing ==
    lab.transcript = <<>> =>
        /\ lab.found = <<>>
        /\ lab.missing = lab.keywords
        /\ lab.keyword_score = RInt(0)

\* C13: check_keywords reports a keyword as found exactly when it matches
\* the normalized transcript (substring, or a token at least
\* fuzzy_threshold similar); keyword_score is 100 * |found| / |keywords|
\* and 0 for an empty keyword list; for an empty transcript all keywords
\* are missing and the score is 0
C13_KeywordMatching ==
    lab.op = "check_keywords" /\ lab.called =>
        /\ FoundAsSpecified
        /\ ScoreAsSpecified
        /\ EmptyTranscriptAllMissing

\* the sum of score * weight over criteria[i..], as one fraction in lowest terms
RECURSIVE SumProducts(_, _)
SumProducts(criteria, i) ==
    IF i > Len(criteria) THEN [num |-> 0, den |-> 1]
    ELSE LET rest == SumProducts(criteria, i + 1)
             p == Norm([num |-> criteria[i].score.num * criteria[i].weight.num,
                        den |-> criteria[i].score.den * criteria[i].weight.den])
         IN  Norm([num |-> p.num * rest.den + rest.num * p.den,
                   den |-> p.den * rest.den])

\* every criterion of the response has the same score
EqualScores(criteria) ==
    \A i, j \in DOMAIN criteria : criteria[i].score = criteria[j].score

\* C14: overall_score is sum(result.score * result.weight) rounded to one
\* decimal and nothing else: when every criterion scores s and the weights
\* sum to w it is s*w (rounded), whatever w is
C14_NoRenormalization ==
    \A r \in DOMAIN req :
        req[r].status = 200 =>
            LET criteria == req[r].response.criteria
                overall == req[r].response.overall_score
                w == SumWeights(criteria, 1)
            IN  /\ IsRoundedTo(overall, SumProducts(criteria, 1))
                /\ criteria # <<>> /\ EqualScores(criteria) =>
                      IsRoundedTo(overall,
                                  Norm([num |-> criteria[1].score.num * w.num,
                                        den |-> criteria[1].score.den * w.den]))

\* two criteria with different scores and weights that sum to 3/2: the
\* overall score is their weighted sum, above what a division by 3/2 gives
C14_Witness ==
    \E r \in DOMAIN req :
        LET criteria == req[r].response.criteria
        IN  /\ req[r].status = 200
            /\ Len(criteria) = 2
            /\ SumWeights(criteria, 1) = Rat(3, 2)
            /\ criteria[1].score # criteria[2].score
            /\ RLt(RInt(0), req[r].response.overall_score)
            /\ ~IsRoundedTo(req[r].response.overall_score,
                            [num |-> 2 * SumProducts(criteria, 1).num,
                             den |-> 3 * SumProducts(criteria, 1).den])

\* letters and digits
AlnumChars == Range(UpperSeq) \cup Range(LowerSeq) \cup Range(DigitSeq)

\* the characters of s that are in chars, in order
Only(s, chars) ==
    LET Keep(c) == c \in chars
    IN  SelectSeq(s, Keep)

\* out is text normalized, kept being the characters that survive: only
\* kept characters and single spaces, no uppercase letter, no space at
\* either end, and the kept characters of text, lowercased, in order
NormalizedKeeping(text, out, kept) ==
    /\ \A i \in DOMAIN out : out[i] \in kept \cup {" "}
    /\ \A i \in DOMAIN out : out[i] \notin UpperChars
    /\ \A i \in 1..(Len(out) - 1) : ~(out[i] = " " /\ out[i + 1] = " ")
    /\ out # <<>> => out[1] # " " /\ out[Len(out)] # " "
    /\ Only(out, kept) = lower(Only(text, kept))

C16_SameAnswer ==
    \A r, q \in DOMAIN req :
        /\ Done(req[r]) /\ Done(req[q])
        /\ req[r].impl = "modular" /\ req[q].impl = "monolith"
        /\ req[r].body = req[q].body
        /\ UsesDefaultRubric(req[r]) \/ req[r].rubric = <<>>
        => /\ req[r].status = req[q].status
           /\ req[r].status = 200 => req[r].response = req[q].response

====
